---- MODULE Spec2Model ----
(***************************************************************************)
(* A model of the production-line ETL pipeline of script.py.               *)
(*                                                                         *)
(* A text (a column name, a machine name, an inspection result) is a       *)
(* sequence of one-character strings, so that lower(), strip(), replace()  *)
(* and the substring tests of the code are computed, not assumed.          *)
(* A cell of a DataFrame is a tagged record: NaN (pandas NaN/NaT/None),    *)
(* Num(n), Str(text), Ts(m) (a datetime, in minutes), Rat (a mean that is  *)
(* no integer), Var (a standard deviation, kept as its squared value).     *)
(* A DataFrame is [cols, rows]: the ordered column names and the rows,     *)
(* each a sequence of cells aligned with cols.                             *)
(***************************************************************************)
EXTENDS Integers, Sequences, FiniteSets, TLC

VARIABLES pc, sensor_raw, quality_raw, sensor_clean, sensor_std, quality_std,
          joined_data, hourly_summary, db,
          fs,      \* the files on disk: path -> [exists, df]
          args,    \* the arguments of run_etl_pipeline
          faults,  \* the tables whose to_sql raises in this run
          log      \* the status lines printed so far

vars == <<pc, sensor_raw, quality_raw, sensor_clean, sensor_std, quality_std,
          joined_data, hourly_summary, db, fs, args, faults, log>>

(***************************************************************************)
(* Bounds of the model.                                                    *)
(***************************************************************************)
MaxCleanRows == 4

MaxMultiRows == 2

MaxRows == 2

MaxQRows == 2

(***************************************************************************)
(* Texts.                                                                  *)
(***************************************************************************)
Range(s) == {s[i] : i \in DOMAIN s}

Upper == <<"A", "B", "C", "D", "E", "F", "G", "H", "I", "J", "K", "L", "M",
           "N", "O", "P", "Q", "R", "S", "T", "U", "V", "W", "X", "Y", "Z">>

Lowers == <<"a", "b", "c", "d", "e", "f", "g", "h", "i", "j", "k", "l", "m",
            "n", "o", "p", "q", "r", "s", "t", "u", "v", "w", "x", "y", "z">>

LowerChar(c) ==
    IF c \in Range(Upper)
    THEN Lowers[CHOOSE i \in DOMAIN Upper : Upper[i] = c]
    ELSE c

\* str.lower(), character by character
LowerText(s) == [i \in DOMAIN s |-> LowerChar(s[i])]

\* sub in s, position by position
ContainsText(s, sub) ==
    \E i \in 1..(Len(s) - Len(sub) + 1) : SubSeq(s, i, i + Len(sub) - 1) = sub

\* str.strip(): leading and trailing blanks removed
Strip(s) ==
    LET nb == {i \in DOMAIN s : s[i] # " "}
    IN  IF nb = {} THEN <<>>
        ELSE SubSeq(s, CHOOSE i \in nb : \A j \in nb : i <= j,
                       CHOOSE i \in nb : \A j \in nb : j <= i)

\* str.replace(' ', '_')
ReplaceSpace(s) == [i \in DOMAIN s |-> IF s[i] = " " THEN "_" ELSE s[i]]

\* the keywords of the column heuristics
kw_time == <<"t", "i", "m", "e">>
kw_date == <<"d", "a", "t", "e">>
kw_temp == <<"t", "e", "m", "p">>
kw_press == <<"p", "r", "e", "s", "s">>
kw_vibr == <<"v", "i", "b", "r">>
kw_power == <<"p", "o", "w", "e", "r">>
kw_machine == <<"m", "a", "c", "h", "i", "n", "e">>
kw_line == <<"l", "i", "n", "e">>
kw_sensor == <<"s", "e", "n", "s", "o", "r">>
kw_quality == <<"q", "u", "a", "l", "i", "t", "y">>
kw_result == <<"r", "e", "s", "u", "l", "t">>
kw_defect == <<"d", "e", "f", "e", "c", "t">>
kw_fault == <<"f", "a", "u", "l", "t">>
kw_pass == <<"p", "a", "s", "s">>
kw_fail == <<"f", "a", "i", "l">>
kw_status == <<"s", "t", "a", "t", "u", "s">>

\* the column names the code writes
n_data_quality == <<"d", "a", "t", "a", "_", "q", "u", "a", "l", "i", "t", "y">>
n_record_id == <<"r", "e", "c", "o", "r", "d", "_", "i", "d">>
n_quality_status == <<"q", "u", "a", "l", "i", "t", "y", "_", "s", "t", "a", "t", "u", "s">>
n_hour == <<"h", "o", "u", "r">>
n_timestamp == <<"t", "i", "m", "e", "s", "t", "a", "m", "p">>
n_line_id == <<"l", "i", "n", "e", "_", "i", "d">>
n_machine_id == <<"m", "a", "c", "h", "i", "n", "e", "_", "i", "d">>
n_temperature == <<"t", "e", "m", "p", "e", "r", "a", "t", "u", "r", "e">>
n_pressure == <<"p", "r", "e", "s", "s", "u", "r", "e">>
n_vibration == <<"v", "i", "b", "r", "a", "t", "i", "o", "n">>
n_power == <<"p", "o", "w", "e", "r">>
n_result == <<"r", "e", "s", "u", "l", "t">>
n_defect_type == <<"d", "e", "f", "e", "c", "t", "_", "t", "y", "p", "e">>
n_total_checks == <<"t", "o", "t", "a", "l", "_", "c", "h", "e", "c", "k", "s">>
n_defect_count == <<"d", "e", "f", "e", "c", "t", "_", "c", "o", "u", "n", "t">>
n_defect_rate == <<"d", "e", "f", "e", "c", "t", "_", "r", "a", "t", "e">>
n_check_id == <<"c", "h", "e", "c", "k", "_", "i", "d">>
n_summary_id == <<"s", "u", "m", "m", "a", "r", "y", "_", "i", "d">>
n_date == <<"d", "a", "t", "e">>
n_temp_2 == <<"t", "e", "m", "p", "_", "2">>
sfx_quality == <<"_", "q", "u", "a", "l", "i", "t", "y">>

\* the values of data_quality and quality_status
t_good == <<"g", "o", "o", "d">>
t_estimated == <<"e", "s", "t", "i", "m", "a", "t", "e", "d">>
t_invalid == <<"i", "n", "v", "a", "l", "i", "d">>
t_pass == <<"p", "a", "s", "s">>
t_fail == <<"f", "a", "i", "l">>
t_not_checked == <<"n", "o", "t", "_", "c", "h", "e", "c", "k", "e", "d">>

Digits == <<"0", "1", "2", "3", "4", "5", "6", "7", "8", "9">>

\* the texts of the inputs
c_Date == <<"D", "a", "t", "e">>
c_Temp2 == <<"T", "e", "m", "p", " ", "2">>
d_0000 == <<"2", "0", "2", "4", "-", "0", "1", "-", "0", "1", " ", "0", "0", ":", "0", "0">>
d_0030 == <<"2", "0", "2", "4", "-", "0", "1", "-", "0", "1", " ", "0", "0", ":", "3", "0">>
d_0100 == <<"2", "0", "2", "4", "-", "0", "1", "-", "0", "1", " ", "0", "1", ":", "0", "0">>
d_recent == <<"2", "0", "2", "4", "-", "0", "1", "-", "0", "2", " ", "1", "2", ":", "0", "0">>
c_Timestamp == <<"T", "i", "m", "e", "s", "t", "a", "m", "p">>
c_MachineID == <<"M", "a", "c", "h", "i", "n", "e", " ", "I", "D">>
c_Temperature == <<"T", "e", "m", "p", "e", "r", "a", "t", "u", "r", "e">>
c_Pressure == <<"P", "r", "e", "s", "s", "u", "r", "e">>
c_RecordID == <<"R", "e", "c", "o", "r", "d", " ", "I", "D">>
c_temp == <<"t", "e", "m", "p">>
c_Result == <<"R", "e", "s", "u", "l", "t">>
x_M1 == <<"M", "1">>
x_m1 == <<"m", "1">>
x_M2s == <<"M", "2", " ">>
x_m2 == <<"m", "2">>
x_old == <<"o", "l", "d">>
x_Pass == <<"P", "a", "s", "s">>
x_FAIL == <<"F", "A", "I", "L">>
x_na == <<"n", "/", "a">>
x_PassFail == <<"P", "a", "s", "s", "/", "f", "a", "i", "l">>

Keywords == {kw_time, kw_date, kw_temp, kw_press, kw_vibr, kw_power, kw_machine,
             kw_line, kw_sensor, kw_quality, kw_result, kw_defect, kw_fault,
             kw_pass, kw_fail, kw_status}

\* lower() and the substring tests are computed once for the texts that
\* recur, and character by character for any other text
KnownTexts ==
    LET base == {n_data_quality, n_record_id, n_quality_status, n_hour, n_timestamp,
                 n_line_id, n_machine_id, n_temperature, n_pressure, n_vibration,
                 n_power, n_result, n_defect_type, n_total_checks, n_defect_count,
                 n_defect_rate, c_Timestamp, c_MachineID, c_Temperature, c_Pressure,
                 c_RecordID, c_temp, c_Result, x_M1, x_m1, x_M2s, x_m2, x_old,
                 x_Pass, x_FAIL, x_na, x_PassFail, t_good, t_estimated, t_invalid,
                 t_pass, t_fail, t_not_checked, c_Date, n_date, c_Temp2, n_temp_2}
    IN  base \cup {n \o sfx_quality : n \in base}

LowerTable == [s \in KnownTexts |-> LowerText(s)]

ContainsTable == [s \in KnownTexts |-> {k \in Keywords : ContainsText(s, k)}]

\* str.lower()
Lower(s) == IF s \in KnownTexts THEN LowerTable[s] ELSE LowerText(s)

\* sub in s
Contains(s, sub) ==
    IF s \in KnownTexts /\ sub \in Keywords THEN sub \in ContainsTable[s]
    ELSE ContainsText(s, sub)

(***************************************************************************)
(* Cells and DataFrames.                                                   *)
(***************************************************************************)
NaN == [k |-> "nan"]

Num(n) == [k |-> "num", v |-> n]

Str(s) == [k |-> "str", v |-> s]

Ts(m) == [k |-> "ts", v |-> m]

IsNum(c) == c.k = "num"

IsStr(c) == c.k = "str"

IsTs(c) == c.k = "ts"

\* pd.DataFrame()
EmptyFrame == [cols |-> <<>>, rows |-> <<>>]

\* df.empty
IsEmpty(df) == Len(df.rows) = 0 \/ Len(df.cols) = 0

\* the numbers of S in increasing order
SetToSeq(S) ==
    [k \in 1..Cardinality(S) |-> CHOOSE x \in S : Cardinality({y \in S : y < x}) = k - 1]

\* the values of column j, in row order
Column(df, j) == [i \in DOMAIN df.rows |-> df.rows[i][j]]

\* df[j] = vals for an existing column position j
PutColumn(df, j, vals) ==
    [df EXCEPT !.rows = [i \in DOMAIN df.rows |->
                            [df.rows[i] EXCEPT ![j] = vals[i]]]]

\* df[name] = vals: an existing column of that name is overwritten in place,
\* otherwise the column is appended
AssignColumn(df, name, vals) ==
    IF \E j \in DOMAIN df.cols : df.cols[j] = name
    THEN [df EXCEPT !.rows = [i \in DOMAIN df.rows |->
                [j \in DOMAIN df.cols |->
                    IF df.cols[j] = name THEN vals[i] ELSE df.rows[i][j]]]]
    ELSE [cols |-> Append(df.cols, name),
          rows |-> [i \in DOMAIN df.rows |-> Append(df.rows[i], vals[i])]]

\* the cell of the first column called name in row r
Cell(df, r, name) ==
    r[CHOOSE j \in DOMAIN df.cols :
          df.cols[j] = name /\ \A h \in DOMAIN df.cols : df.cols[h] = name => j <= h]

HasCol(df, name) == \E j \in DOMAIN df.cols : df.cols[j] = name

\* df[[columns at the positions keep, in order]]
SelectCols(df, keep) ==
    [cols |-> [h \in DOMAIN keep |-> df.cols[keep[h]]],
     rows |-> [i \in DOMAIN df.rows |-> [h \in DOMAIN keep |-> df.rows[i][keep[h]]]]]

(***************************************************************************)
(* extract_sensor_data and extract_quality_data                            *)
(*                                                                         *)
(* A file holds its timestamps as texts.  The dates of this model are the  *)
(* texts "2024-01-DD HH:MM"; a datetime is the number of minutes since     *)
(* 2024-01-01 00:00.  Any other text is no date.                           *)
(***************************************************************************)
\* the name the code reads the sensor data from, whatever file_path is
SensorPath == "Dataset 1 - Capteurs.csv"

\* the name the code reads the quality data from
QualityPath == "Dataset 2 - Qualite.csv"

\* another path a caller may pass as sensor_file
OtherPath == "sensors.csv"

Paths == {SensorPath, QualityPath, OtherPath}

NoFile == [exists |-> FALSE, df |-> EmptyFrame]

File(df) == [exists |-> TRUE, df |-> df]

MinutesPerHour == 60

MinutesPerDay == 1440

\* datetime.now(): 2024-01-03 00:00
Now == 2880

IsDigit(ch) == \E d \in DOMAIN Digits : Digits[d] = ch

DigitValue(ch) == (CHOOSE d \in DOMAIN Digits : Digits[d] = ch) - 1

TwoDigits(s, i) == DigitValue(s[i]) * 10 + DigitValue(s[i + 1])

IsDateText(s) ==
    /\ Len(s) = 16
    /\ SubSeq(s, 1, 8) = <<"2", "0", "2", "4", "-", "0", "1", "-">>
    /\ s[11] = " " /\ s[14] = ":"
    /\ \A i \in {9, 10, 12, 13, 15, 16} : IsDigit(s[i])
    /\ TwoDigits(s, 9) \in 1..31
    /\ TwoDigits(s, 12) < 24
    /\ TwoDigits(s, 15) < MinutesPerHour

\* the datetime a date text stands for
ParseDatetime(s) ==
    Ts(((TwoDigits(s, 9) - 1) * 24 + TwoDigits(s, 12)) * MinutesPerHour + TwoDigits(s, 15))

\* pd.to_datetime(errors='coerce') of one cell: a datetime stays, a date
\* text is parsed, anything else becomes NaT
ToDatetime(c) ==
    IF IsTs(c) THEN c
    ELSE IF IsStr(c) /\ IsDateText(c.v) THEN ParseDatetime(c.v)
    ELSE NaN

\* [col for col in df.columns if 'time' in col.lower() or 'date' in col.lower()]
TimestampCols(cols) ==
    SetToSeq({j \in DOMAIN cols :
                 Contains(Lower(cols[j]), kw_time) \/ Contains(Lower(cols[j]), kw_date)})

\* df[col] = pd.to_datetime(df[col], errors='coerce') for the column at j
ParseColumn(df, j) ==
    PutColumn(df, j, [i \in DOMAIN df.rows |-> ToDatetime(df.rows[i][j])])

\* df[the rows at the positions keep]
SelectRows(df, keep) == [df EXCEPT !.rows = [h \in DOMAIN keep |-> df.rows[keep[h]]]]

\* datetime.now() - timedelta(days=days_back)
Cutoff(days_back) == Now - days_back * MinutesPerDay

\* df[df[col] >= cutoff_date]: a NaT compares false
AtOrAfter(df, j, cutoff) ==
    SelectRows(df, SetToSeq({i \in DOMAIN df.rows :
                                IsTs(df.rows[i][j]) /\ df.rows[i][j].v >= cutoff}))

\* df = pd.read_csv(file_path); df[name] = pd.to_datetime(df[name]):
\* a missing file or a missing column raises, and the except clauses
\* return pd.DataFrame()
Reload(file, name) ==
    IF ~file.exists \/ ~HasCol(file.df, name) THEN EmptyFrame
    ELSE ParseColumn(file.df, CHOOSE j \in DOMAIN file.df.cols : file.df.cols[j] = name)

\* the branch taken when days_back is given
Lookback(parsed, j, cutoff, file) ==
    IF Len(AtOrAfter(parsed, j, cutoff).rows) = 0
    THEN Reload(file, parsed.cols[j])
    ELSE AtOrAfter(parsed, j, cutoff)

\* the body of the try block once the first read has succeeded; days_back
\* is <<>> for None and <<n>> for n days
ExtractFrom(df, tcols, file, days_back) ==
    IF tcols = <<>> THEN df
    ELSE IF days_back = <<>> THEN ParseColumn(df, tcols[1])
    ELSE Lookback(ParseColumn(df, tcols[1]), tcols[1], Cutoff(days_back[1]), file)

extract_sensor_data(files, file_path, days_back) ==
    IF ~files[SensorPath].exists THEN EmptyFrame
    ELSE ExtractFrom(files[SensorPath].df, TimestampCols(files[SensorPath].df.cols),
                     files[file_path], days_back)

\* df[df[status_cols[0]].notna()] when a status column exists
CompletedOnly(df, scols) ==
    IF scols = <<>> THEN df
    ELSE SelectRows(df, SetToSeq({i \in DOMAIN df.rows : df.rows[i][scols[1]] # NaN}))

StatusCols(cols) == SetToSeq({j \in DOMAIN cols : Contains(Lower(cols[j]), kw_status)})

QualityFrom(df, tcols) ==
    CompletedOnly(IF tcols = <<>> THEN df ELSE ParseColumn(df, tcols[1]), StatusCols(df.cols))

extract_quality_data(files, file_path) ==
    IF ~files[QualityPath].exists THEN EmptyFrame
    ELSE QualityFrom(files[QualityPath].df, TimestampCols(files[QualityPath].df.cols))

(***************************************************************************)
(* clean_sensor_data                                                       *)
(***************************************************************************)
SensorTypes == <<"temperature", "pressure", "vibration">>

TypeKeyword(t) ==
    CASE t = "temperature" -> kw_temp
      [] t = "pressure" -> kw_press
      [] t = "vibration" -> kw_vibr

TempMin == 0
TempMax == 150
PressMin == 0
PressMax == 10
VibrMin == 0
VibrMax == 100

RangeMin(t) ==
    CASE t = "temperature" -> TempMin
      [] t = "pressure" -> PressMin
      [] t = "vibration" -> VibrMin

RangeMax(t) ==
    CASE t = "temperature" -> TempMax
      [] t = "pressure" -> PressMax
      [] t = "vibration" -> VibrMax

ErrorCodes == {-999, -1}

\* sensor_cols[t]: the columns of the input whose lowercased name contains
\* the keyword of t, in column order
SensorCols(df, t) ==
    SetToSeq({j \in DOMAIN df.cols : Contains(Lower(df.cols[j]), TypeKeyword(t))})

\* .replace([-999, -1, None], np.nan)
ReplaceErrorCodes(c) == IF IsNum(c) /\ c.v \in ErrorCodes THEN NaN ELSE c

\* the range test without its upper half
OutOfRangeBelowOnly(c, t) == IsNum(c) /\ c.v < RangeMin(t)

\* (col < min_val) | (col > max_val): false on NaN
OutOfRange(c, t) == IsNum(c) /\ (c.v < RangeMin(t) \/ c.v > RangeMax(t))

\* a fill that looks one row back only
FFillOneBack(s) ==
    [i \in DOMAIN s |-> IF s[i] # NaN \/ i = 1 THEN s[i] ELSE s[i - 1]]

\* Series.ffill(): each NaN takes the last value carried so far
FFill(s) ==
    LET carry[i \in 0..Len(s)] ==
            IF i = 0 THEN NaN
            ELSE IF s[i] # NaN THEN s[i] ELSE carry[i - 1]
    IN  [i \in DOMAIN s |-> carry[i]]

\* the body of the loop of clean_sensor_data for one column j of type t:
\* vals is the column, flags the data_quality column
CleanColumn(vals, flags, t) ==
    LET replaced == [i \in DOMAIN vals |-> ReplaceErrorCodes(vals[i])]
        invalid_mask == [i \in DOMAIN vals |-> OutOfRange(replaced[i], t)]
        ranged == [i \in DOMAIN vals |-> IF invalid_mask[i] THEN NaN ELSE replaced[i]]
        flags1 == [i \in DOMAIN vals |-> IF invalid_mask[i] THEN Str(t_invalid) ELSE flags[i]]
        filled_mask == [i \in DOMAIN vals |-> ranged[i] = NaN]
        filled == FFill(ranged)
        flags2 == [i \in DOMAIN vals |->
                      IF filled_mask[i] /\ filled[i] # NaN THEN Str(t_estimated) ELSE flags1[i]]
        flags3 == [i \in DOMAIN vals |->
                      IF filled[i] = NaN THEN Str(t_invalid) ELSE flags2[i]]
    IN  [vals |-> filled, flags |-> flags3]

\* the pairs with the pressure columns first
CleanOrderPressureFirst(df) ==
    LET of(t) == [h \in DOMAIN SensorCols(df, t) |-> [type |-> t, col |-> SensorCols(df, t)[h]]]
    IN  of(SensorTypes[2]) \o of(SensorTypes[1]) \o of(SensorTypes[3])

\* the (type, column) pairs in the order the two loops visit them
CleanOrder(df) ==
    LET of(t) == [h \in DOMAIN SensorCols(df, t) |-> [type |-> t, col |-> SensorCols(df, t)[h]]]
    IN  of(SensorTypes[1]) \o of(SensorTypes[2]) \o of(SensorTypes[3])

RECURSIVE CleanLoop(_, _, _)
CleanLoop(df, flags, todo) ==
    IF todo = <<>> THEN [df |-> df, flags |-> flags]
    ELSE LET step == CleanColumn(Column(df, Head(todo).col), flags, Head(todo).type)
         IN  CleanLoop(PutColumn(df, Head(todo).col, step.vals), step.flags, Tail(todo))

clean_sensor_data(df) ==
    IF IsEmpty(df) THEN df
    ELSE LET good == [i \in DOMAIN df.rows |-> Str(t_good)]
             done == CleanLoop(df, good, CleanOrder(df))
         IN  AssignColumn(done.df, n_data_quality, done.flags)

(***************************************************************************)
(* standardize_data                                                        *)
(***************************************************************************)
\* columns.str.strip().str.lower().str.replace(' ', '_')
NormalizeName(s) == ReplaceSpace(Lower(Strip(s)))

IsTimeName(s) == Contains(s, kw_time) \/ Contains(s, kw_date)

IsEntityName(s) == Contains(s, kw_machine) \/ Contains(s, kw_line)

IsNameCol(s) == IsEntityName(s) \/ Contains(s, kw_sensor)

\* .str.lower().str.strip() of one cell
LowerStrip(c) == IF IsStr(c) THEN Str(Strip(Lower(c.v))) ELSE c

\* dtype of a column: datetime64 when every cell is a datetime or NaT,
\* object when a text occurs
IsDatetimeColumn(vals) == \A i \in DOMAIN vals : IsTs(vals[i]) \/ vals[i] = NaN

IsObjectColumn(vals) == \E i \in DOMAIN vals : IsStr(vals[i])

RECURSIVE Decimal(_)
\* str(i) for i >= 0
Decimal(i) ==
    IF i < 10 THEN <<Digits[i + 1]>>
    ELSE Append(Decimal(i \div 10), Digits[(i % 10) + 1])

RECURSIVE ZeroPad(_, _)
\* the :0wd format: zeros on the left up to width w, never truncating
ZeroPad(s, w) == IF Len(s) >= w THEN s ELSE ZeroPad(<<"0">> \o s, w)

RecordIdWidth == 8

\* the identifier without the zero padding
RecordIdNoPad(i) == <<"R", "E", "C", "_">> \o Decimal(i)

\* f"REC_{i:08d}"
RecordId(i) == <<"R", "E", "C", "_">> \o ZeroPad(Decimal(i), RecordIdWidth)

standardize_data(df) ==
    IF IsEmpty(df) THEN df
    ELSE LET names == [j \in DOMAIN df.cols |-> NormalizeName(df.cols[j])]
             conv(j, i) ==
                 LET c == df.rows[i][j]
                     c1 == IF IsTimeName(names[j]) /\ ~IsDatetimeColumn(Column(df, j))
                           THEN ToDatetime(c) ELSE c
                 IN  IF IsNameCol(names[j]) /\ IsObjectColumn(Column(df, j))
                     THEN LowerStrip(c1) ELSE c1
             renamed == [cols |-> names,
                         rows |-> [i \in DOMAIN df.rows |->
                                      [j \in DOMAIN df.cols |-> conv(j, i)]]]
             keep == SetToSeq({j \in DOMAIN names : names[j] # n_record_id})
             dropped == SelectCols(renamed, keep)
         IN  [cols |-> Append(dropped.cols, n_record_id),
              rows |-> [i \in DOMAIN dropped.rows |->
                           Append(dropped.rows[i], Str(RecordId(i - 1)))]]

(***************************************************************************)
(* join_sensor_quality_data                                                *)
(***************************************************************************)
\* [col for col in columns if 'time' in col or 'date' in col], as positions
TimeCols(cols) == SetToSeq({j \in DOMAIN cols : IsTimeName(cols[j])})

\* [col for col in columns if 'machine' in col or 'line' in col]
MachineCols(cols) == SetToSeq({j \in DOMAIN cols : IsEntityName(cols[j])})

\* [col for col in columns if 'result' in col.lower()]
ResultCols(cols) == SetToSeq({j \in DOMAIN cols : Contains(Lower(cols[j]), kw_result)})

\* the status read without lowering the text
StatusOfCaseSensitive(c) ==
    IF c # NaN /\ IsStr(c) /\ Contains(c.v, kw_pass) THEN Str(t_pass)
    ELSE IF c # NaN /\ IsStr(c) /\ Contains(c.v, kw_fail) THEN Str(t_fail)
    ELSE Str(t_not_checked)

\* the lambda of the quality_status column
StatusOf(c) ==
    IF c # NaN /\ IsStr(c) /\ Contains(Lower(c.v), kw_pass) THEN Str(t_pass)
    ELSE IF c # NaN /\ IsStr(c) /\ Contains(Lower(c.v), kw_fail) THEN Str(t_fail)
    ELSE Str(t_not_checked)

\* the column written without its default value
MarkNull(df) ==
    AssignColumn(df, n_quality_status, [i \in DOMAIN df.rows |-> NaN])

\* sensor_df['quality_status'] = 'not_checked'
MarkNotChecked(df) ==
    AssignColumn(df, n_quality_status, [i \in DOMAIN df.rows |-> Str(t_not_checked)])

\* the match on the first key only
MatchesOnFirstKey(lrow, right, lk, rk) ==
    SetToSeq({r \in DOMAIN right.rows : right.rows[r][rk[1]] = lrow[lk[1]]})

\* the rows of the right frame whose key cells equal those of left row lrow,
\* in the order of the right frame (pandas matches a null key with a null key)
MatchesOf(lrow, right, lk, rk) ==
    SetToSeq({r \in DOMAIN right.rows :
                 \A h \in DOMAIN lk : right.rows[r][rk[h]] = lrow[lk[h]]})

RECURSIVE Flatten(_)
Flatten(ss) == IF ss = <<>> THEN <<>> ELSE Head(ss) \o Flatten(Tail(ss))

\* left.merge(right, left_on=lk, right_on=rk, how='left', suffixes=('', '_quality'))
\* lk and rk are the positions of the key columns
MergeLeft(left, right, lk, rk) ==
    LET coalesced == {j \in DOMAIN right.cols :
                         \E h \in DOMAIN rk : rk[h] = j /\ right.cols[j] = left.cols[lk[h]]}
        keep == SetToSeq(DOMAIN right.cols \ coalesced)
        rname(j) == IF right.cols[j] \in Range(left.cols)
                    THEN right.cols[j] \o sfx_quality ELSE right.cols[j]
        rcols == [h \in DOMAIN keep |-> rname(keep[h])]
        nulls == [h \in DOMAIN keep |-> NaN]
        out(i) ==
            LET m == MatchesOf(left.rows[i], right, lk, rk)
            IN  IF m = <<>> THEN <<left.rows[i] \o nulls>>
                ELSE [h \in DOMAIN m |->
                         left.rows[i] \o [g \in DOMAIN keep |-> right.rows[m[h]][keep[g]]]]
    IN  [cols |-> left.cols \o rcols,
         rows |-> Flatten([i \in DOMAIN left.rows |-> out(i)])]

\* the quality_status column of the merged frame
AddQualityStatus(df) ==
    LET result_cols == ResultCols(df.cols)
    IN  IF result_cols # <<>>
        THEN AssignColumn(df, n_quality_status,
                          [i \in DOMAIN df.rows |-> StatusOf(df.rows[i][result_cols[1]])])
        ELSE MarkNotChecked(df)

join_sensor_quality_data(sensor_df, quality_df) ==
    IF IsEmpty(sensor_df) THEN sensor_df
    ELSE IF IsEmpty(quality_df) THEN MarkNotChecked(sensor_df)
    ELSE
      LET sensor_time_cols == TimeCols(sensor_df.cols)
          quality_time_cols == TimeCols(quality_df.cols)
          sensor_machine_cols == MachineCols(sensor_df.cols)
          quality_machine_cols == MachineCols(quality_df.cols)
      IN  IF sensor_time_cols = <<>> \/ quality_time_cols = <<>>
          THEN MarkNotChecked(sensor_df)
          ELSE
            LET qt == quality_time_cols[1]
                renamed == [quality_df EXCEPT
                               !.cols = [j \in DOMAIN quality_df.cols |->
                                            NormalizeName(quality_df.cols[j])]]
                quality_df_std ==
                    IF IsDatetimeColumn(Column(renamed, qt)) THEN renamed
                    ELSE PutColumn(renamed, qt,
                                   [i \in DOMAIN renamed.rows |-> ToDatetime(renamed.rows[i][qt])])
                byEntity == sensor_machine_cols # <<>> /\ quality_machine_cols # <<>>
                lk == IF byEntity THEN <<sensor_time_cols[1], sensor_machine_cols[1]>>
                      ELSE <<sensor_time_cols[1]>>
                rk == IF byEntity THEN <<qt, quality_machine_cols[1]>> ELSE <<qt>>
            IN  AddQualityStatus(MergeLeft(sensor_df, quality_df_std, lk, rk))

(***************************************************************************)
(* calculate_hourly_summaries                                              *)
(***************************************************************************)

\* the timestamp taken as its own hour
FloorHourNone(c) == IF IsTs(c) THEN c ELSE NaN

\* .dt.floor('h') of one cell
FloorHour(c) == IF IsTs(c) THEN Ts(MinutesPerHour * (c.v \div MinutesPerHour)) ELSE NaN

RECURSIVE Gcd(_, _)
Gcd(a, b) == IF b = 0 THEN a ELSE Gcd(b, a % b)

Abs(a) == IF a < 0 THEN -a ELSE a

\* the number n / d (d > 0): an integer when d divides n, a fraction in
\* lowest terms otherwise
Rat(n, d) ==
    LET g == Gcd(Abs(n), d)
    IN  IF d \div g = 1 THEN Num(n \div g)
        ELSE [k |-> "rat", num |-> n \div g, den |-> d \div g]

\* a standard deviation, kept as the variance it is the square root of
Sqrt(c) == [k |-> "sqrt", v |-> c]

RECURSIVE Sum(_)
Sum(xs) == IF xs = <<>> THEN 0 ELSE Head(xs) + Sum(Tail(xs))

\* the order of the characters of the model in their character codes
Ascii == <<" ", "-", "/", "0", "1", "2", "3", "4", "5", "6", "7", "8", "9", ":",
           "A", "B", "C", "D", "E", "F", "G", "H", "I", "J", "K", "L", "M",
           "N", "O", "P", "Q", "R", "S", "T", "U", "V", "W", "X", "Y", "Z", "_",
           "a", "b", "c", "d", "e", "f", "g", "h", "i", "j", "k", "l", "m",
           "n", "o", "p", "q", "r", "s", "t", "u", "v", "w", "x", "y", "z">>

Code(c) == CHOOSE i \in DOMAIN Ascii : Ascii[i] = c

RECURSIVE TextLess(_, _)
TextLess(a, b) ==
    IF b = <<>> THEN FALSE
    ELSE IF a = <<>> THEN TRUE
    ELSE IF Head(a) # Head(b) THEN Code(Head(a)) < Code(Head(b))
    ELSE TextLess(Tail(a), Tail(b))

\* the sort order of two non-null cells of one column
CellLess(a, b) == IF IsStr(a) THEN TextLess(a.v, b.v) ELSE a.v < b.v

RECURSIVE KeyLess(_, _)
KeyLess(a, b) ==
    IF a = <<>> THEN FALSE
    ELSE IF Head(a) # Head(b) THEN CellLess(Head(a), Head(b))
    ELSE KeyLess(Tail(a), Tail(b))

RECURSIVE SortKeys(_)
SortKeys(K) ==
    IF K = {} THEN <<>>
    ELSE LET m == CHOOSE x \in K : \A y \in K \ {x} : KeyLess(x, y)
         IN  <<m>> \o SortKeys(K \ {m})

NotQuality(n) == ~Contains(n, kw_quality)

\* [col for col in df.columns if 'time' in col and 'quality' not in col]
SummaryTimeCols(cols) ==
    SetToSeq({j \in DOMAIN cols : Contains(cols[j], kw_time) /\ NotQuality(cols[j])})

\* group_cols after 'hour': the names with line or machine and no quality,
\* each name once, in column order
RECURSIVE DedupNames(_, _)
DedupNames(names, seen) ==
    IF names = <<>> THEN seen
    ELSE DedupNames(Tail(names),
                    IF Head(names) \in Range(seen) THEN seen ELSE Append(seen, Head(names)))

GroupCols(cols) ==
    LET ent == SetToSeq({j \in DOMAIN cols :
                   (Contains(Lower(cols[j]), kw_line) \/ Contains(Lower(cols[j]), kw_machine))
                   /\ NotQuality(cols[j])})
    IN  DedupNames([h \in DOMAIN ent |-> cols[ent[h]]], <<n_hour>>)

\* the sensor type the if/elif chain files a column under, "" when none
SensorTypeOf(n) ==
    IF Contains(Lower(n), kw_temp) /\ NotQuality(n) THEN "temperature"
    ELSE IF Contains(Lower(n), kw_press) /\ NotQuality(n) THEN "pressure"
    ELSE IF Contains(Lower(n), kw_vibr) /\ NotQuality(n) THEN "vibration"
    ELSE IF Contains(Lower(n), kw_power) /\ NotQuality(n) THEN "power"
    ELSE ""

\* sensor_mapping as a sequence of [name, col] in the order the keys are
\* first inserted; a later column of the same type replaces the value
RECURSIVE SensorMapping(_, _, _)
SensorMapping(cols, j, acc) ==
    IF j > Len(cols) THEN acc
    ELSE LET t == SensorTypeOf(cols[j])
             at == {h \in DOMAIN acc : acc[h].name = t}
         IN  IF t = "" THEN SensorMapping(cols, j + 1, acc)
             ELSE IF at = {} THEN SensorMapping(cols, j + 1, Append(acc, [name |-> t, col |-> j]))
             ELSE SensorMapping(cols, j + 1,
                      [h \in DOMAIN acc |-> IF h \in at THEN [name |-> t, col |-> j] ELSE acc[h]])

SensorText(t) ==
    CASE t = "temperature" -> n_temperature
      [] t = "pressure" -> n_pressure
      [] t = "vibration" -> n_vibration
      [] t = "power" -> n_power

p_avg == <<"a", "v", "g", "_">>
p_min == <<"m", "i", "n", "_">>
p_max == <<"m", "a", "x", "_">>
p_std == <<"s", "t", "d", "_">>

\* mean, min, max, std of the non-null values xs (numbers) of one group
Mean(xs) == IF xs = <<>> THEN NaN ELSE Rat(Sum(xs), Len(xs))

Min(xs) == IF xs = <<>> THEN NaN
           ELSE Num(CHOOSE x \in Range(xs) : \A y \in Range(xs) : x <= y)

Max(xs) == IF xs = <<>> THEN NaN
           ELSE Num(CHOOSE x \in Range(xs) : \A y \in Range(xs) : y <= x)

Std(xs) ==
    IF Len(xs) < 2 THEN NaN
    ELSE Sqrt(Rat(Len(xs) * Sum([i \in DOMAIN xs |-> xs[i] * xs[i]]) - Sum(xs) * Sum(xs),
                  Len(xs) * (Len(xs) - 1)))

\* the rate as a fraction, not a percentage
DefectRateFraction(defect_count, total_checks) ==
    IF total_checks = 0 THEN Num(0) ELSE Rat(defect_count, total_checks)

\* (defect_count / total_checks * 100).fillna(0)
DefectRate(defect_count, total_checks) ==
    LET q == IF total_checks = 0 THEN NaN ELSE Rat(defect_count * 100, total_checks)
    IN  IF q = NaN THEN Num(0) ELSE q

\* df['hour'] = df[time_col].dt.floor('h')
WithHour(df) ==
    LET time_cols == SummaryTimeCols(df.cols)
    IN  IF IsEmpty(df) \/ time_cols = <<>> THEN df
        ELSE AssignColumn(df, n_hour,
                          [i \in DOMAIN df.rows |-> FloorHour(df.rows[i][time_cols[1]])])

\* the key of row r of the frame with the hour column
GroupKey(df, r, group_cols) == [h \in DOMAIN group_cols |-> Cell(df, r, group_cols[h])]

\* groupby drops the rows with a null in the key and sorts the groups
GroupKeys(df, group_cols) ==
    SortKeys({key \in {GroupKey(df, df.rows[i], group_cols) : i \in DOMAIN df.rows} :
                 NaN \notin Range(key)})

\* the rows of a group, in row order
GroupRows(df, key, group_cols) ==
    SetToSeq({i \in DOMAIN df.rows : GroupKey(df, df.rows[i], group_cols) = key})

\* the non-null numbers of column j in the rows at positions idx
Values(df, idx, j) ==
    LET nn == SetToSeq({h \in DOMAIN idx : df.rows[idx[h]][j] # NaN})
    IN  [h \in DOMAIN nn |-> df.rows[idx[nn[h]]][j].v]

calculate_hourly_summaries(df0) ==
    LET time_cols == SummaryTimeCols(df0.cols)
    IN  IF IsEmpty(df0) \/ time_cols = <<>> THEN EmptyFrame
        ELSE
          LET df == WithHour(df0)
              group_cols == GroupCols(df.cols)
              mapping == SensorMapping(df.cols, 1, <<>>)
              keys == GroupKeys(df, group_cols)
              statcols(m) == <<p_avg \o SensorText(m.name), p_min \o SensorText(m.name),
                               p_max \o SensorText(m.name), p_std \o SensorText(m.name)>>
              stats(m, idx) == <<Mean(Values(df, idx, m.col)), Min(Values(df, idx, m.col)),
                                 Max(Values(df, idx, m.col)), Std(Values(df, idx, m.col))>>
              quality(idx) ==
                  LET qs == [h \in DOMAIN idx |-> Cell(df, df.rows[idx[h]], n_quality_status)]
                      total_checks == Cardinality({h \in DOMAIN qs : qs[h] # NaN})
                      defect_count == Cardinality({h \in DOMAIN qs : qs[h] = Str(t_fail)})
                  IN  <<Num(total_checks), Num(defect_count),
                        DefectRate(defect_count, total_checks)>>
          IN  [cols |-> group_cols
                        \o Flatten([h \in DOMAIN mapping |-> statcols(mapping[h])])
                        \o <<n_total_checks, n_defect_count, n_defect_rate>>,
               rows |-> [g \in DOMAIN keys |->
                            LET idx == GroupRows(df, keys[g], group_cols)
                            IN  keys[g]
                                \o Flatten([h \in DOMAIN mapping |-> stats(mapping[h], idx)])
                                \o quality(idx)]]

(***************************************************************************)
(* create_database and load_to_database                                    *)
(***************************************************************************)
SensorTargets == <<n_record_id, n_timestamp, n_line_id, n_machine_id, n_temperature,
                   n_pressure, n_vibration, n_power, n_data_quality>>

\* the columns of CREATE TABLE quality_checks
QualitySchema == <<n_check_id, n_timestamp, n_line_id, n_machine_id, n_result, n_defect_type>>

\* the columns of CREATE TABLE hourly_summary
SummarySchema ==
    <<n_summary_id, n_hour, n_line_id, n_machine_id,
      p_avg \o n_temperature, p_min \o n_temperature, p_max \o n_temperature,
      p_avg \o n_pressure, p_avg \o n_vibration,
      n_total_checks, n_defect_count, n_defect_rate>>

\* CREATE TABLE IF NOT EXISTS: the three tables, empty, when the file is new
create_database(d) ==
    IF d.created THEN d
    ELSE [created |-> TRUE,
          sensor_readings |-> [cols |-> SensorTargets, rows |-> <<>>],
          quality_checks |-> [cols |-> QualitySchema, rows |-> <<>>],
          hourly_summary |-> [cols |-> SummarySchema, rows |-> <<>>]]

\* df.loc[:, ~df.columns.duplicated()]: the first column of each name
DropDuplicateCols(df) ==
    SelectCols(df, SetToSeq({j \in DOMAIN df.cols :
                                \A h \in 1..(j - 1) : df.cols[h] # df.cols[j]}))

\* the if/elif chain of the sensor col_map on the lowered name l, nq being
\* 'quality' not in col_lower; <<>> when no branch is taken
SensorBranch(l, nq, used) ==
    IF l = n_record_id /\ n_record_id \notin used THEN n_record_id
    ELSE IF (Contains(l, kw_time) \/ Contains(l, kw_date)) /\ n_timestamp \notin used
         THEN n_timestamp
    ELSE IF Contains(l, kw_line) /\ nq /\ n_line_id \notin used THEN n_line_id
    ELSE IF Contains(l, kw_machine) /\ nq /\ n_machine_id \notin used THEN n_machine_id
    ELSE IF Contains(l, kw_temp) /\ nq /\ n_temperature \notin used THEN n_temperature
    ELSE IF Contains(l, kw_press) /\ nq /\ n_pressure \notin used THEN n_pressure
    ELSE IF Contains(l, kw_vibr) /\ nq /\ n_vibration \notin used THEN n_vibration
    ELSE IF Contains(l, kw_power) /\ nq /\ n_power \notin used THEN n_power
    ELSE IF l = n_data_quality /\ n_data_quality \notin used THEN n_data_quality
    ELSE <<>>

\* the target that column name n takes when the targets in used are taken
SensorTarget(n, used) == SensorBranch(Lower(n), ~Contains(Lower(n), kw_quality), used)

\* the if/elif chain of the quality col_map on the lowered name l
QualityBranch(l, used) ==
    IF Contains(l, kw_time) \/ Contains(l, kw_date)
    THEN (IF n_timestamp \notin used THEN n_timestamp ELSE <<>>)
    ELSE IF Contains(l, kw_line) /\ n_line_id \notin used THEN n_line_id
    ELSE IF Contains(l, kw_machine) /\ n_machine_id \notin used THEN n_machine_id
    ELSE IF Contains(l, kw_result) /\ n_result \notin used THEN n_result
    ELSE IF Contains(l, kw_defect) \/ Contains(l, kw_fault)
         THEN (IF n_defect_type \notin used THEN n_defect_type ELSE <<>>)
    ELSE <<>>

QualityTarget(n, used) == QualityBranch(Lower(n), used)

\* col_map[col] = target, when a branch is taken
MapColumn(acc, col, t) ==
    IF t = <<>> THEN acc ELSE Append(acc, [col |-> col, target |-> t])

\* col_map built by the loop over the columns: the sequence of
\* [col, target] in insertion order
RECURSIVE ColMap(_, _, _, _)
ColMap(cols, j, acc, table) ==
    IF j > Len(cols) THEN acc
    ELSE ColMap(cols, j + 1,
                MapColumn(acc, cols[j],
                          IF table = "sensor_readings"
                          THEN SensorTarget(cols[j], {acc[h].target : h \in DOMAIN acc})
                          ELSE QualityTarget(cols[j], {acc[h].target : h \in DOMAIN acc})),
                table)

\* df.rename(columns=col_map)
Rename(df, col_map) ==
    [df EXCEPT !.cols = [j \in DOMAIN df.cols |->
        IF \E h \in DOMAIN col_map : col_map[h].col = df.cols[j]
        THEN col_map[CHOOSE h \in DOMAIN col_map : col_map[h].col = df.cols[j]].target
        ELSE df.cols[j]]]

\* df[names]: for each name in turn, every column of that name
SelectNames(df, names) ==
    SelectCols(df, Flatten([h \in DOMAIN names |->
                               SetToSeq({j \in DOMAIN df.cols : df.cols[j] = names[h]})]))

\* the sensor frame with its columns renamed by the sensor col_map
RenameSensor(dedup) == Rename(dedup, ColMap(dedup.cols, 1, <<>>, "sensor_readings"))

\* the positions in SensorTargets of the targets the frame has
AvailablePositions(renamed) ==
    SetToSeq({h \in DOMAIN SensorTargets : HasCol(renamed, SensorTargets[h])})

\* available_cols = [col for col in cols_to_keep if col in sensor_df.columns]
AvailableCols(avail) == [h \in DOMAIN avail |-> SensorTargets[avail[h]]]

\* sensor_df[available_cols], duplicated column names dropped again
SelectAvailable(renamed) ==
    DropDuplicateCols(SelectNames(renamed, AvailableCols(AvailablePositions(renamed))))

\* the frame written to sensor_readings
SensorLoad(sensor_df) == SelectAvailable(RenameSensor(DropDuplicateCols(sensor_df)))

\* quality_df.rename(columns=col_map)[list(col_map.values())]
QualitySelect(quality_df, col_map) ==
    SelectNames(Rename(quality_df, col_map), [h \in DOMAIN col_map |-> col_map[h].target])

\* the frame written to quality_checks
QualityLoad(quality_df) ==
    QualitySelect(quality_df, ColMap(quality_df.cols, 1, <<>>, "quality_checks"))

\* the frame written to hourly_summary
SummaryLoad(summary_df) ==
    [summary_df EXCEPT !.cols = [j \in DOMAIN summary_df.cols |-> Lower(summary_df.cols[j])]]

\* the to_sql call on sensor_readings, made when the frame is not empty and
\* has record_id
WriteSensor(sensor_df, loaded) ==
    IF ~IsEmpty(sensor_df) /\ HasCol(loaded, n_record_id)
    THEN <<[table |-> "sensor_readings", frame |-> loaded]>> ELSE <<>>

\* the to_sql call on quality_checks, made when the mapped frame is not empty
WriteQuality(quality_df, loaded) ==
    IF ~IsEmpty(quality_df) /\ ~IsEmpty(loaded)
    THEN <<[table |-> "quality_checks", frame |-> loaded]>> ELSE <<>>

\* the to_sql call on hourly_summary, made when the summary is not empty
WriteSummary(summary_df) ==
    IF ~IsEmpty(summary_df)
    THEN <<[table |-> "hourly_summary", frame |-> SummaryLoad(summary_df)]>> ELSE <<>>

\* the to_sql calls of one load, in program order
Writes(sensor_df, quality_df, summary_df) ==
    WriteSensor(sensor_df, SensorLoad(sensor_df))
    \o WriteQuality(quality_df, QualityLoad(quality_df))
    \o WriteSummary(summary_df)

HasDuplicateNames(cols) == \E j, h \in DOMAIN cols : j < h /\ cols[j] = cols[h]

\* a to_sql call raises when the sink fails on that table, and always on a
\* frame with two columns of one name
Raises(w, flt) == w.table \in flt \/ HasDuplicateNames(w.frame.cols)

\* a table that accumulates the rows of each call
ToSqlAppend(old, frame) ==
    IF old.cols = frame.cols THEN [old EXCEPT !.rows = old.rows \o frame.rows] ELSE frame

\* to_sql(if_exists='replace') that succeeds: the table is dropped and
\* created again from the frame, and the call commits
ToSql(old, frame) == frame

\* what a to_sql call that raises leaves of the table: the table as it
\* was, when the call fails before DROP TABLE; or the new, empty table,
\* when it fails in the INSERTs, which alone are rolled back; or no table,
\* when CREATE TABLE itself fails
Interrupted(old, frame, dropped) ==
    IF ~dropped THEN old
    ELSE IF HasDuplicateNames(frame.cols) THEN EmptyFrame
    ELSE [cols |-> frame.cols, rows |-> <<>>]

RECURSIVE RunWrites(_, _, _, _)
\* the try block: the calls in turn up to the first that raises; each call
\* that succeeds has committed, so conn.rollback() in the except clause
\* finds no open transaction
RunWrites(d, ws, flt, dropped) ==
    IF ws = <<>> THEN [db |-> d, error |-> FALSE]
    ELSE IF Raises(Head(ws), flt)
    THEN [db |-> [d EXCEPT ![Head(ws).table] =
                      Interrupted(d[Head(ws).table], Head(ws).frame, dropped)],
          error |-> TRUE]
    ELSE RunWrites([d EXCEPT ![Head(ws).table] = ToSql(d[Head(ws).table], Head(ws).frame)],
                   Tail(ws), flt, dropped)

\* the database the call leaves and whether the except clause ran
load_to_database(sensor_df, quality_df, summary_df, d, flt, dropped) ==
    RunWrites(d, Writes(sensor_df, quality_df, summary_df), flt, dropped)

(***************************************************************************)
(* The inputs: the two files, the call and the sink.  Each scenario fixes   *)
(* the columns of the two files and the values a cell of each column is    *)
(* drawn from; a file without columns stands for a file that is missing.   *)
(***************************************************************************)
v_t0 == Str(d_0000)
v_t30 == Str(d_0030)
v_t60 == Str(d_0100)
v_recent == Str(d_recent)
v_M1 == Str(x_M1)
v_m1 == Str(x_m1)
v_M2s == Str(x_M2s)
v_m2 == Str(x_m2)
v_old == Str(x_old)
v_Pass == Str(x_Pass)
v_FAIL == Str(x_FAIL)
v_fail == Str(t_fail)
v_na == Str(x_na)
v_PassFail == Str(x_PassFail)

RECURSIVE Tuples(_)
\* the rows whose cell j is drawn from doms[j]
Tuples(doms) ==
    IF doms = <<>> THEN {<<>>}
    ELSE {<<x>> \o t : x \in Head(doms), t \in Tuples(Tail(doms))}

\* the frames of at most maxn rows over the columns cols
Frames(cols, doms, maxn) ==
    {[cols |-> cols, rows |-> rs] :
        rs \in UNION {[1..n -> Tuples(doms)] : n \in 0..maxn}}

\* no database file yet
NoDb == [created |-> FALSE, sensor_readings |-> EmptyFrame,
         quality_checks |-> EmptyFrame, hourly_summary |-> EmptyFrame]

\* the database an earlier run has left
OldDb ==
    [created |-> TRUE,
     sensor_readings |-> [cols |-> <<n_record_id, n_machine_id, n_temperature>>,
                          rows |-> <<<<Str(RecordId(0)), v_old, Num(99)>>>>],
     quality_checks |-> [cols |-> <<n_machine_id, n_result>>,
                         rows |-> <<<<v_old, v_fail>>>>],
     hourly_summary |-> [cols |-> <<n_hour, n_machine_id, n_total_checks>>,
                         rows |-> <<<<Ts(0), v_old, Num(1)>>>>]]

Tables == {"sensor_readings", "quality_checks", "hourly_summary"}

\* the call of __main__ on a new database file and a sink that works
Plain ==
    [calls |-> {[sensor_file |-> SensorPath, days_back |-> <<>>, other |-> NoFile]},
     dbs |-> {NoDb}, faults |-> {{}}]

BaseScenarios ==
    { \* one temperature column, every kind of reading; no quality file
      [scols |-> <<c_Timestamp, c_MachineID, c_Temperature>>,
       sdoms |-> <<{v_t0}, {v_M1},
                   {NaN, Num(-999), Num(20), Num(25), Num(200)}>>,
       smax |-> MaxCleanRows,
       qcols |-> <<>>, qdoms |-> <<>>, qmax |-> 0],
      \* two sensor columns and an identifier column of the file;
      \* a quality file without an entity column
      [scols |-> <<c_RecordID, n_timestamp, c_temp, c_Pressure>>,
       sdoms |-> <<{v_old}, {v_t0}, {Num(-1), Num(20), Num(200)}, {NaN, Num(5), Num(50)}>>,
       smax |-> MaxMultiRows,
       qcols |-> <<n_timestamp, n_result>>,
       qdoms |-> <<{v_t0}, {v_FAIL}>>, qmax |-> MaxQRows],
      \* the join keys vary on both sides
      [scols |-> <<n_timestamp, n_machine_id, n_temperature>>,
       sdoms |-> <<{v_t0, NaN}, {v_m1, v_M2s}, {Num(10)}>>,
       smax |-> MaxRows,
       qcols |-> <<c_Timestamp, c_MachineID, c_Result>>,
       qdoms |-> <<{v_t0, NaN}, {v_M1, v_m2}, {v_Pass}>>, qmax |-> MaxQRows],
      \* the inspection results vary
      [scols |-> <<n_timestamp, n_machine_id, n_temperature>>,
       sdoms |-> <<{v_t0}, {v_m1}, {Num(10), Num(20)}>>,
       smax |-> MaxRows,
       qcols |-> <<n_timestamp, n_machine_id, c_Result>>,
       qdoms |-> <<{v_t0}, {v_m1}, {v_Pass, v_FAIL, v_na, NaN, v_PassFail}>>,
       qmax |-> MaxQRows],
      \* the hours, machines and temperatures vary
      [scols |-> <<n_timestamp, n_machine_id, n_temperature>>,
       sdoms |-> <<{v_t30, v_t60}, {v_m1, v_m2}, {NaN, Num(10), Num(20)}>>,
       smax |-> MaxRows,
       qcols |-> <<n_timestamp, n_machine_id, n_result>>,
       qdoms |-> <<{v_t30}, {v_m1}, {v_fail}>>, qmax |-> 1],
      \* no timestamp column in the sensor file
      [scols |-> <<n_machine_id, n_temperature>>,
       sdoms |-> <<{v_m1}, {Num(10), Num(20)}>>,
       smax |-> MaxRows,
       qcols |-> <<n_timestamp, n_machine_id, n_result>>,
       qdoms |-> <<{v_t0}, {v_m1}, {v_Pass, v_FAIL}>>, qmax |-> MaxQRows],
      \* no timestamp column in the quality file
      [scols |-> <<n_timestamp, n_machine_id, n_temperature>>,
       sdoms |-> <<{v_t0}, {v_m1}, {Num(10), Num(20)}>>,
       smax |-> MaxRows,
       qcols |-> <<n_machine_id, n_result>>,
       qdoms |-> <<{v_m1}, {v_Pass, v_FAIL}>>, qmax |-> MaxQRows] }

\* the scenarios with a call, a database or a sink of their own
Scenarios ==
    {sc @@ Plain : sc \in BaseScenarios} \cup
    { \* the sensor file is missing
      [scols |-> <<>>, sdoms |-> <<>>, smax |-> 0,
       qcols |-> <<n_timestamp, n_result>>,
       qdoms |-> <<{v_t0}, {v_Pass}>>, qmax |-> 1,
       dbs |-> {NoDb, OldDb}] @@ Plain,
      \* a lookback window, and a sensor_file that is or is not the file
      \* the code reads first
      [scols |-> <<c_Timestamp, n_temperature>>,
       sdoms |-> <<{v_t0, v_recent, v_na}, {Num(10)}>>, smax |-> 2,
       qcols |-> <<>>, qdoms |-> <<>>, qmax |-> 0,
       calls |-> {[sensor_file |-> SensorPath, days_back |-> <<>>, other |-> NoFile],
                  [sensor_file |-> SensorPath, days_back |-> <<1>>, other |-> NoFile],
                  [sensor_file |-> OtherPath, days_back |-> <<1>>, other |-> NoFile],
                  [sensor_file |-> OtherPath, days_back |-> <<1>>,
                   other |-> File([cols |-> <<c_Timestamp, n_temperature>>,
                                   rows |-> <<<<v_t30, Num(20)>>>>])]}] @@ Plain,
      \* two temperature columns
      [scols |-> <<n_timestamp, c_Temperature, c_Temp2>>,
       sdoms |-> <<{v_t0}, {Num(10), Num(20)}, {Num(30), Num(40), Num(200)}>>, smax |-> 2,
       qcols |-> <<>>, qdoms |-> <<>>, qmax |-> 0] @@ Plain,
      \* the timestamp column is called Date
      [scols |-> <<c_Date, n_machine_id, n_temperature>>,
       sdoms |-> <<{v_t0, v_t60}, {v_m1}, {Num(10)}>>, smax |-> 2,
       qcols |-> <<c_Date, n_machine_id, n_result>>,
       qdoms |-> <<{v_t0}, {v_m1}, {v_Pass}>>, qmax |-> 1] @@ Plain,
      \* an old database, and a sink that fails on one table
      [scols |-> <<n_timestamp, n_machine_id, n_temperature>>,
       sdoms |-> <<{v_t0}, {v_m1}, {Num(10), Num(20)}>>, smax |-> 1,
       qcols |-> <<n_timestamp, n_machine_id, n_result>>,
       qdoms |-> <<{v_t0}, {v_m1}, {v_Pass, v_FAIL}>>, qmax |-> 1,
       dbs |-> {NoDb, OldDb},
       faults |-> {{}} \cup {{t} : t \in Tables}] @@ Plain,
      \* an old database and a run whose summary or quality set is empty
      [scols |-> <<n_machine_id, n_temperature>>,
       sdoms |-> <<{v_m1}, {Num(10)}>>, smax |-> 1,
       qcols |-> <<n_machine_id, n_result>>,
       qdoms |-> <<{v_m1}, {v_Pass}>>, qmax |-> 1,
       dbs |-> {OldDb}] @@ Plain }

(***************************************************************************)
(* run_etl_pipeline                                                        *)
(***************************************************************************)
\* a file with columns cols, or no file when cols is empty
FileOf(df) == IF df.cols = <<>> THEN NoFile ELSE File(df)

Init ==
    /\ pc = "start"
    /\ \E sc \in Scenarios :
          /\ \E sdf \in Frames(sc.scols, sc.sdoms, sc.smax),
                qdf \in Frames(sc.qcols, sc.qdoms, sc.qmax),
                call \in sc.calls :
                /\ fs = [p \in Paths |->
                            IF p = SensorPath THEN FileOf(sdf)
                            ELSE IF p = QualityPath THEN FileOf(qdf)
                            ELSE call.other]
                /\ args = [sensor_file |-> call.sensor_file, quality_file |-> QualityPath,
                           days_back |-> call.days_back]
          /\ db \in sc.dbs
          /\ faults \in sc.faults
    /\ sensor_raw = EmptyFrame
    /\ quality_raw = EmptyFrame
    /\ sensor_clean = EmptyFrame
    /\ sensor_std = EmptyFrame
    /\ quality_std = EmptyFrame
    /\ joined_data = EmptyFrame
    /\ hourly_summary = EmptyFrame
    /\ log = {}

Extract ==
    /\ pc = "start"
    /\ sensor_raw' = extract_sensor_data(fs, args.sensor_file, args.days_back)
    /\ quality_raw' = extract_quality_data(fs, args.quality_file)
    /\ pc' = "extracted"
    /\ UNCHANGED <<sensor_clean, sensor_std, quality_std, joined_data, hourly_summary,
                   db, fs, args, faults, log>>

\* a stop that has opened the database first
StopAfterCreate ==
    /\ pc = "extracted"
    /\ IsEmpty(sensor_raw)
    /\ pc' = "stopped"
    /\ db' = create_database(db)
    /\ log' = log \cup {"PIPELINE FAILED"}
    /\ UNCHANGED <<sensor_raw, quality_raw, sensor_clean, sensor_std, quality_std,
                   joined_data, hourly_summary, fs, args, faults>>

\* if sensor_raw.empty: print PIPELINE FAILED; return
Stop ==
    /\ pc = "extracted"
    /\ IsEmpty(sensor_raw)
    /\ pc' = "stopped"
    /\ log' = log \cup {"PIPELINE FAILED"}
    /\ UNCHANGED <<sensor_raw, quality_raw, sensor_clean, sensor_std, quality_std,
                   joined_data, hourly_summary, db, fs, args, faults>>

Clean ==
    /\ pc = "extracted"
    /\ ~IsEmpty(sensor_raw)
    /\ sensor_clean' = clean_sensor_data(sensor_raw)
    /\ pc' = "cleaned"
    /\ UNCHANGED <<sensor_raw, quality_raw, sensor_std, quality_std,
                   joined_data, hourly_summary, db, fs, args, faults, log>>

Standardize ==
    /\ pc = "cleaned"
    /\ sensor_std' = standardize_data(sensor_clean)
    /\ quality_std' = IF ~IsEmpty(quality_raw) THEN standardize_data(quality_raw)
                      ELSE quality_raw
    /\ pc' = "standardized"
    /\ UNCHANGED <<sensor_raw, quality_raw, sensor_clean, joined_data, hourly_summary, db,
                   fs, args, faults, log>>

\* the paths of join_sensor_quality_data that write quality_status into the
\* frame they were given and return that same frame
JoinsInPlace(sensor_df, quality_df) ==
    \/ IsEmpty(sensor_df)
    \/ IsEmpty(quality_df)
    \/ TimeCols(sensor_df.cols) = <<>>
    \/ TimeCols(quality_df.cols) = <<>>

Join ==
    /\ pc = "standardized"
    /\ joined_data' = join_sensor_quality_data(sensor_std, quality_std)
    /\ sensor_std' = IF JoinsInPlace(sensor_std, quality_std) THEN joined_data'
                     ELSE sensor_std
    /\ pc' = "joined"
    /\ UNCHANGED <<sensor_raw, quality_raw, sensor_clean, quality_std, hourly_summary, db,
                   fs, args, faults, log>>

\* the hour column is written into the frame passed in
Aggregate ==
    /\ pc = "joined"
    /\ hourly_summary' = calculate_hourly_summaries(joined_data)
    /\ joined_data' = WithHour(joined_data)
    /\ sensor_std' = IF sensor_std = joined_data THEN WithHour(joined_data) ELSE sensor_std
    /\ pc' = "aggregated"
    /\ UNCHANGED <<sensor_raw, quality_raw, sensor_clean, quality_std, db,
                   fs, args, faults, log>>

\* the lines load_to_database prints
LoadLog(error) == IF error THEN {"ERROR loading data to database"}
                  ELSE {"All data successfully loaded to database"}

\* conn = create_database(db_path); load_to_database(...); conn.close();
\* print ETL PIPELINE COMPLETED SUCCESSFULLY.  The call is the body of
\* load_to_database, ws being its to_sql calls and loaded what it leaves.
Load ==
    /\ pc = "aggregated"
    /\ \E ws \in {Writes(joined_data, quality_std, hourly_summary)}, dropped \in BOOLEAN :
          \E loaded \in {RunWrites(create_database(db), ws, faults, dropped)} :
              /\ db' = loaded.db
              /\ log' = log \cup LoadLog(loaded.error)
                            \cup {"ETL PIPELINE COMPLETED SUCCESSFULLY"}
    /\ pc' = "done"
    /\ UNCHANGED <<sensor_raw, quality_raw, sensor_clean, sensor_std, quality_std,
                   joined_data, hourly_summary, fs, args, faults>>

Next == Extract \/ Stop \/ Clean \/ Standardize \/ Join \/ Aggregate \/ Load

Spec == Init /\ [][Next]_vars

(***************************************************************************)
(* Properties.                                                             *)
(***************************************************************************)
\* the data_quality flag of row i of a cleaned frame
FlagOf(df, i) == Cell(df, df.rows[i], n_data_quality)

\* the columns clean_sensor_data validates, with the type of each
RangeChecked(df) ==
    {p \in (DOMAIN df.cols) \X Range(SensorTypes) :
        Contains(Lower(df.cols[p[1]]), TypeKeyword(p[2]))}

InRange(c, t) == IsNum(c) /\ RangeMin(t) <= c.v /\ c.v <= RangeMax(t)

\* C1: after clean_sensor_data every cell of a temperature, pressure or
\* vibration column is null or a value inside the valid range of its type;
\* no out-of-range value and no error code (-999, -1) is left.
C1_CleanedInRange ==
    pc = "cleaned" =>
        \A p \in RangeChecked(sensor_raw) : \A i \in DOMAIN sensor_clean.rows :
            LET c == sensor_clean.rows[i][p[1]]
            IN  c = NaN \/ (InRange(c, p[2]) /\ c.v \notin {-999, -1})

\* an out-of-range reading was replaced by the value before it, and an
\* error code with nothing before it became null
C1_Witness ==
    /\ pc = "cleaned"
    /\ \E p \in RangeChecked(sensor_raw) : \E i, h \in DOMAIN sensor_raw.rows :
          /\ sensor_raw.rows[i][p[1]] = Num(200)
          /\ sensor_clean.rows[i][p[1]] = Num(20)
          /\ sensor_raw.rows[h][p[1]] = Num(-999)
          /\ sensor_clean.rows[h][p[1]] = NaN

\* C2: in the output of clean_sensor_data, a row with a null in any
\* range-validated sensor column has data_quality = invalid, for any number
\* of sensor columns.
C2_NullIsInvalid ==
    pc = "cleaned" =>
        \A i \in DOMAIN sensor_clean.rows :
            (\E p \in RangeChecked(sensor_raw) : sensor_clean.rows[i][p[1]] = NaN)
                => FlagOf(sensor_clean, i) = Str(t_invalid)

\* a cell of a sensor column that is a number, no error code, and in range
ValidReading(c, t) == InRange(c, t) /\ c.v \notin {-999, -1}

\* C3: with a single sensor column, every cell that is missing, an error
\* code or out of range takes the value of the nearest preceding valid cell
\* in row order over the whole sequence, whatever the machine of the rows,
\* and its row is flagged estimated; valid cells are unchanged; a cell with
\* no valid cell before it stays null and its row is flagged invalid.
C3_ForwardFill ==
    (pc = "cleaned" /\ Cardinality(RangeChecked(sensor_raw)) = 1) =>
        \A p \in RangeChecked(sensor_raw) : \A i \in DOMAIN sensor_raw.rows :
            LET in(h) == sensor_raw.rows[h][p[1]]
                out == sensor_clean.rows[i][p[1]]
                before == {h \in 1..(i - 1) : ValidReading(in(h), p[2])}
            IN  IF ValidReading(in(i), p[2]) THEN out = in(i)
                ELSE IF before # {}
                THEN /\ out = in(CHOOSE h \in before : \A g \in before : g <= h)
                     /\ FlagOf(sensor_clean, i) = Str(t_estimated)
                ELSE /\ out = NaN
                     /\ FlagOf(sensor_clean, i) = Str(t_invalid)

\* [20, invalid, invalid, 25] becomes [20, 20, 20, 25], the middle rows estimated
C3_Witness ==
    /\ pc = "cleaned"
    /\ Cardinality(RangeChecked(sensor_raw)) = 1
    /\ \E p \in RangeChecked(sensor_raw) :
          /\ Column(sensor_raw, p[1]) = <<Num(20), Num(200), NaN, Num(25)>>
          /\ Column(sensor_clean, p[1]) = <<Num(20), Num(20), Num(20), Num(25)>>
          /\ FlagOf(sensor_clean, 2) = Str(t_estimated)
          /\ FlagOf(sensor_clean, 3) = Str(t_estimated)

\* a value carried from a row of one machine into a row of another
C3_AcrossMachines ==
    /\ pc = "cleaned"
    /\ Cardinality(RangeChecked(sensor_raw)) = 1
    /\ Len(sensor_raw.rows) = 2
    /\ sensor_raw.cols = <<n_timestamp, n_machine_id, n_temperature>>
    /\ sensor_raw.rows[1][2] # sensor_raw.rows[2][2]
    /\ sensor_raw.rows[2][3] = NaN
    /\ sensor_clean.rows[2][3] = Num(10)

RECURSIVE DecimalValue(_)
\* the number a sequence of digits writes
DecimalValue(ds) ==
    IF ds = <<>> THEN 0
    ELSE 10 * DecimalValue(SubSeq(ds, 1, Len(ds) - 1))
         + ((CHOOSE d \in DOMAIN Digits : Digits[d] = ds[Len(ds)]) - 1)

\* the identifiers of a frame, in row order
RecordIds(df) == [i \in DOMAIN df.rows |-> Cell(df, df.rows[i], n_record_id)]

\* out is in, standardized: same row count, one record_id column, row i
\* holding REC_ and i in 8 zero-padded digits, all distinct
Identified(in, out) ==
    /\ Len(out.rows) = Len(in.rows)
    /\ Cardinality({j \in DOMAIN out.cols : out.cols[j] = n_record_id}) = 1
    /\ \A i \in DOMAIN out.rows :
          LET id == RecordIds(out)[i]
          IN  /\ IsStr(id)
              /\ Len(id.v) = 12
              /\ SubSeq(id.v, 1, 4) = <<"R", "E", "C", "_">>
              /\ \A h \in 5..12 : id.v[h] \in Range(Digits)
              /\ DecimalValue(SubSeq(id.v, 5, 12)) = i - 1
    /\ \A i, h \in DOMAIN out.rows : i # h => RecordIds(out)[i] # RecordIds(out)[h]

\* C4: after standardize_data on a non-empty record set of n rows, row i
\* (from 0) has record_id REC_ followed by i in 8 zero-padded digits, the
\* identifiers are pairwise distinct, there are still n rows, and a
\* record_id column of the input is overwritten.
C4_RecordIds ==
    pc = "standardized" =>
        /\ ~IsEmpty(sensor_clean) => Identified(sensor_clean, sensor_std)
        /\ ~IsEmpty(quality_raw) => Identified(quality_raw, quality_std)

\* an identifier column of the file was replaced
C4_Witness ==
    /\ pc = "standardized"
    /\ Len(sensor_clean.rows) = 2
    /\ \E j \in DOMAIN sensor_clean.cols :
          /\ sensor_clean.cols[j] = c_RecordID
          /\ sensor_clean.rows[2][j] = v_old
    /\ RecordIds(sensor_std) =
          <<Str(<<"R", "E", "C", "_", "0", "0", "0", "0", "0", "0", "0", "0">>),
            Str(<<"R", "E", "C", "_", "0", "0", "0", "0", "0", "0", "0", "1">>)>>
    /\ Len(quality_std.rows) = 2

\* C5: after a complete pipeline run the rows persisted in sensor_readings
\* have pairwise distinct record_id values, for every sensor and quality
\* input, also when the quality input repeats a (timestamp, entity) key.
C5_PersistedIdsDistinct ==
    (pc = "done" /\ HasCol(db.sensor_readings, n_record_id)) =>
        \A i, h \in DOMAIN db.sensor_readings.rows :
            i # h => RecordIds(db.sensor_readings)[i] # RecordIds(db.sensor_readings)[h]

\* a name with the timestamp role
NamesTime(n) == Contains(n, kw_time) \/ Contains(n, kw_date)

\* a name with the entity role
NamesEntity(n) == Contains(n, kw_machine) \/ Contains(n, kw_line)

\* the least position of S, 0 when S is empty
FirstOf(S) == IF S = {} THEN 0 ELSE CHOOSE j \in S : \A h \in S : j <= h

\* the first column with the timestamp role, 0 when none
TimeCol(df) == FirstOf({j \in DOMAIN df.cols : NamesTime(df.cols[j])})

\* the first column with the entity role, 0 when none
EntityCol(df) == FirstOf({j \in DOMAIN df.cols : NamesEntity(df.cols[j])})

\* the first column whose name contains 'result' in any case, 0 when none
ResultCol(df) == FirstOf({j \in DOMAIN df.cols : Contains(Lower(df.cols[j]), kw_result)})

\* the join has nothing to join on
Degraded(sensor_df, quality_df) ==
    \/ IsEmpty(quality_df)
    \/ TimeCol(sensor_df) = 0
    \/ TimeCol(quality_df) = 0

\* C6: when the quality rows are empty or a side has no timestamp column,
\* join_sensor_quality_data returns exactly the sensor rows, in order, every
\* sensor field unchanged, each with quality_status = not_checked.
C6_DegradedJoin ==
    [][(pc = "standardized" /\ ~IsEmpty(sensor_std) /\ Degraded(sensor_std, quality_std)) =>
          /\ pc' = "joined"
          /\ joined_data'.cols = Append(sensor_std.cols, n_quality_status)
          /\ Len(joined_data'.rows) = Len(sensor_std.rows)
          /\ \A i \in DOMAIN sensor_std.rows :
                joined_data'.rows[i] = Append(sensor_std.rows[i], Str(t_not_checked))]_vars

\* quality rows exist, but without a timestamp column
C6_Witness ==
    /\ pc = "joined"
    /\ Len(quality_std.rows) = 2
    /\ TimeCol(quality_std) = 0
    /\ TimeCol(sensor_clean) # 0
    /\ Len(joined_data.rows) = 2
    /\ \A i \in DOMAIN joined_data.rows :
          Cell(joined_data, joined_data.rows[i], n_quality_status) = Str(t_not_checked)

\* quality row r has the timestamp, and the entity when both sides have one,
\* of sensor row i
KeyMatch(S, Q, i, r) ==
    /\ Q.rows[r][TimeCol(Q)] = S.rows[i][TimeCol(S)]
    /\ (EntityCol(S) # 0 /\ EntityCol(Q) # 0) =>
          Q.rows[r][EntityCol(Q)] = S.rows[i][EntityCol(S)]

MatchCount(S, Q, i) == Cardinality({r \in DOMAIN Q.rows : KeyMatch(S, Q, i, r)})

\* the output rows of sensor row i: its matches, or one row when it has none
Fanout(S, Q, i) == IF MatchCount(S, Q, i) = 0 THEN 1 ELSE MatchCount(S, Q, i)

RECURSIVE FanoutBefore(_, _, _)
FanoutBefore(S, Q, i) == IF i = 1 THEN 0 ELSE FanoutBefore(S, Q, i - 1) + Fanout(S, Q, i - 1)

\* J is the left join of S with Q
LeftJoined(S, Q, J) ==
    /\ Len(J.rows) = FanoutBefore(S, Q, Len(S.rows) + 1)
    /\ SubSeq(J.cols, 1, Len(S.cols)) = S.cols
    /\ \A i \in DOMAIN S.rows :
          LET block == {FanoutBefore(S, Q, i) + h : h \in 1..Fanout(S, Q, i)}
              result == ResultCol(Q)
              jresult == ResultCol(J)
          IN  /\ \A o \in block : SubSeq(J.rows[o], 1, Len(S.cols)) = S.rows[i]
              /\ MatchCount(S, Q, i) = 0 =>
                    \A o \in block :
                        Cell(J, J.rows[o], n_quality_status) = Str(t_not_checked)
              /\ (MatchCount(S, Q, i) > 0 /\ result # 0) =>
                    \A r \in {r \in DOMAIN Q.rows : KeyMatch(S, Q, i, r)} :
                        \E o \in block : J.rows[o][jresult] = Q.rows[r][result]

\* C7: on the join path each sensor row gives one output row per quality row
\* with an equal timestamp and, when both sides have an entity column, an
\* equal entity, and exactly one output row with quality_status = not_checked
\* when there is none; every output row carries the fields of its sensor row
\* unchanged; the row count is the sum over the sensor rows of
\* max(1, number of matches).
C7_LeftJoin ==
    [][(pc = "standardized" /\ ~IsEmpty(sensor_std) /\ ~Degraded(sensor_std, quality_std)) =>
          LeftJoined(sensor_std, quality_std, joined_data')]_vars

\* one sensor row matched twice, another not at all although a quality row
\* has its timestamp
C7_Witness ==
    /\ pc = "joined"
    /\ ~Degraded(sensor_clean, quality_std)
    /\ Len(sensor_std.rows) = 2
    /\ EntityCol(quality_std) # 0
    /\ MatchCount(sensor_std, quality_std, 1) = 2
    /\ MatchCount(sensor_std, quality_std, 2) = 0
    /\ sensor_std.rows[1][1] = sensor_std.rows[2][1]
    /\ Len(joined_data.rows) = 3

\* the status the result cell c stands for
StatusText(c) ==
    IF c = NaN \/ ~IsStr(c) THEN t_not_checked
    ELSE IF Contains(Lower(c.v), kw_pass) THEN t_pass
    ELSE IF Contains(Lower(c.v), kw_fail) THEN t_fail
    ELSE t_not_checked

\* C8: every row produced by join_sensor_quality_data has a quality_status
\* that is one of pass, fail, not_checked: pass when the cell of the first
\* column whose name contains 'result' is non-null and contains 'pass' in any
\* case, else fail when it contains 'fail', else (null, neither, or no such
\* column) not_checked.
C8_QualityStatus ==
    pc = "joined" =>
        \A i \in DOMAIN joined_data.rows :
            LET status == Cell(joined_data, joined_data.rows[i], n_quality_status)
                result == ResultCol(joined_data)
            IN  /\ status \in {Str(t_pass), Str(t_fail), Str(t_not_checked)}
                /\ status = IF result = 0 THEN Str(t_not_checked)
                            ELSE Str(StatusText(joined_data.rows[i][result]))

\* FAIL gives fail and Pass/fail gives pass
C8_Witness ==
    /\ pc = "joined"
    /\ \E j \in DOMAIN joined_data.cols : \E i, h \in DOMAIN joined_data.rows :
          /\ joined_data.cols[j] = n_result
          /\ joined_data.rows[i][j] = v_FAIL
          /\ Cell(joined_data, joined_data.rows[i], n_quality_status) = Str(t_fail)
          /\ joined_data.rows[h][j] = v_PassFail
          /\ Cell(joined_data, joined_data.rows[h], n_quality_status) = Str(t_pass)

\* a name the aggregator does not take for a quality-side duplicate
Unqualified(n) == ~Contains(n, kw_quality)

\* the timestamp column of the aggregator, 0 when none
HourSource(J) ==
    FirstOf({j \in DOMAIN J.cols : Contains(J.cols[j], kw_time) /\ Unqualified(J.cols[j])})

\* the entity columns of the aggregator, one per name
EntityKeyCols(J) ==
    SetToSeq({j \in DOMAIN J.cols :
                 /\ Contains(Lower(J.cols[j]), kw_line)
                    \/ Contains(Lower(J.cols[j]), kw_machine)
                 /\ Unqualified(J.cols[j])
                 /\ \A h \in 1..(j - 1) : J.cols[h] # J.cols[j]})

\* the start of the hour of a timestamp cell
HourOf(c) == IF IsTs(c) THEN Ts(c.v - (c.v % 60)) ELSE NaN

\* the key of joined row i, hs being the timestamp column and ek the
\* entity columns
KeyAt(J, i, hs, ek) == <<HourOf(J.rows[i][hs])>> \o [h \in DOMAIN ek |-> J.rows[i][ek[h]]]

\* the (hour, entity values) key of joined row i
KeyOf(J, i) == KeyAt(J, i, HourSource(J), EntityKeyCols(J))

\* the keys of the joined rows
KeysAt(J, hs, ek) == {KeyAt(J, i, hs, ek) : i \in DOMAIN J.rows}

\* the key a summary row is for: its first 1 + Len(ek) cells
SummaryKeyAt(H, g, ek) == SubSeq(H.rows[g], 1, 1 + Len(ek))

SummaryKey(J, H, g) == SummaryKeyAt(H, g, EntityKeyCols(J))

MembersAt(J, key, hs, ek) == {i \in DOMAIN J.rows : KeyAt(J, i, hs, ek) = key}

\* the joined rows of a key
Members(J, key) == MembersAt(J, key, HourSource(J), EntityKeyCols(J))

NumerOf(c) == IF c.k = "rat" THEN c.num ELSE c.v

DenomOf(c) == IF c.k = "rat" THEN c.den ELSE 1

IsNumber(c) == c.k \in {"num", "rat"}

AggregatedTypes == {"temperature", "pressure", "vibration", "power"}

TypeWord(t) == IF t = "power" THEN kw_power ELSE TypeKeyword(t)

\* the columns of the joined rows of sensor type t
ColsOfType(J, t) ==
    {j \in DOMAIN J.cols :
        /\ Contains(Lower(J.cols[j]), TypeWord(t))
        /\ Unqualified(J.cols[j])
        /\ \A u \in AggregatedTypes :
              (u # t /\ Contains(Lower(J.cols[j]), TypeWord(u))) =>
                  \/ t = "temperature"
                  \/ t = "pressure" /\ u \in {"vibration", "power"}
                  \/ t = "vibration" /\ u = "power"}

\* summary row g gives the mean, minimum and maximum of the non-null values
\* of column j over the joined rows of its key (null when there are none)
StatsOf(J, H, g, j, t) ==
    LET rows == SetToSeq({i \in Members(J, SummaryKey(J, H, g)) : J.rows[i][j] # NaN})
        xs == [h \in DOMAIN rows |-> J.rows[rows[h]][j].v]
        avg == Cell(H, H.rows[g], p_avg \o SensorText(t))
        min == Cell(H, H.rows[g], p_min \o SensorText(t))
        max == Cell(H, H.rows[g], p_max \o SensorText(t))
    IN  IF xs = <<>> THEN avg = NaN /\ min = NaN /\ max = NaN
        ELSE /\ IsNumber(avg) /\ IsNum(min) /\ IsNum(max)
             /\ NumerOf(avg) * Len(xs) = Sum(xs) * DenomOf(avg)
             /\ min.v \in Range(xs) /\ \A h \in DOMAIN xs : min.v <= xs[h]
             /\ max.v \in Range(xs) /\ \A h \in DOMAIN xs : xs[h] <= max.v
             /\ min.v * DenomOf(avg) <= NumerOf(avg)
             /\ NumerOf(avg) <= max.v * DenomOf(avg)

\* H summarises J: one row per key of Keys, and the statistics of each row
OneRowEach(H, Keys, ek) ==
    /\ \A key \in Keys :
          Cardinality({g \in DOMAIN H.rows : SummaryKeyAt(H, g, ek) = key}) = 1
    /\ \A g \in DOMAIN H.rows : SummaryKeyAt(H, g, ek) \in Keys

Summarises(J, H, Keys) ==
    /\ OneRowEach(H, Keys, EntityKeyCols(J))
    /\ \A g \in DOMAIN H.rows : \A t \in AggregatedTypes :
          Cardinality(ColsOfType(J, t)) = 1 =>
              \A j \in ColsOfType(J, t) : StatsOf(J, H, g, j, t)

\* the joined rows the aggregator can key by the hour
Aggregated == pc = "aggregated" /\ ~IsEmpty(joined_data) /\ HourSource(joined_data) # 0

\* C9 as stated: one summary row per distinct (hour-floor of timestamp, entity
\* values) key occurring in the joined rows, with avg, min and max of each
\* sensor column over the rows of the key.
C9_OneRowPerKey ==
    Aggregated =>
        Summarises(joined_data, hourly_summary,
                   KeysAt(joined_data, HourSource(joined_data), EntityKeyCols(joined_data)))

\* C9 amended: one summary row per distinct (hour-floor of timestamp, entity
\* values) key of the joined rows in which no component is null, the rows
\* with a null timestamp or entity value being in no group; avg, min and max
\* of each sensor column are the mean, minimum and maximum of the non-null
\* values of the key's rows (null when it has none), so min <= avg <= max.
C9_OneRowPerNonNullKey ==
    Aggregated =>
        Summarises(joined_data, hourly_summary,
                   {key \in KeysAt(joined_data, HourSource(joined_data),
                                   EntityKeyCols(joined_data)) : NaN \notin Range(key)})

\* two rows of one hour and machine with 10 and 20 give 15, 10, 20
C9_Witness ==
    /\ Aggregated
    /\ \E j \in ColsOfType(joined_data, "temperature") : \E i, h \in DOMAIN joined_data.rows :
          /\ joined_data.rows[i][j] = Num(10)
          /\ joined_data.rows[h][j] = Num(20)
          /\ KeyOf(joined_data, i) = KeyOf(joined_data, h)
          /\ joined_data.rows[i][HourSource(joined_data)] = Ts(30)
          /\ \E g \in DOMAIN hourly_summary.rows :
                /\ SummaryKey(joined_data, hourly_summary, g) = KeyOf(joined_data, i)
                /\ hourly_summary.rows[g][1] = Ts(0)
                /\ Cell(hourly_summary, hourly_summary.rows[g], p_avg \o n_temperature) = Num(15)
                /\ Cell(hourly_summary, hourly_summary.rows[g], p_min \o n_temperature) = Num(10)
                /\ Cell(hourly_summary, hourly_summary.rows[g], p_max \o n_temperature) = Num(20)

\* C10: in every summary row total_checks is the number of joined rows of the
\* (hour, entity) group whatever their quality_status, defect_count the
\* number of those with quality_status = fail, 0 <= defect_count <=
\* total_checks, defect_rate = defect_count / total_checks * 100 and so in
\* [0, 100], and defect_rate is 0, not null, when total_checks is 0.
C10_DefectMetrics ==
    Aggregated =>
        \A g \in DOMAIN hourly_summary.rows :
            LET J == joined_data
                H == hourly_summary
                members == Members(J, SummaryKey(J, H, g))
                fails == {i \in members : Cell(J, J.rows[i], n_quality_status) = Str(t_fail)}
                total == Cell(H, H.rows[g], n_total_checks)
                defect == Cell(H, H.rows[g], n_defect_count)
                rate == Cell(H, H.rows[g], n_defect_rate)
            IN  /\ total = Num(Cardinality(members))
                /\ defect = Num(Cardinality(fails))
                /\ 0 <= defect.v /\ defect.v <= total.v
                /\ IsNumber(rate)
                /\ total.v # 0 => NumerOf(rate) * total.v = defect.v * 100 * DenomOf(rate)
                /\ 0 <= NumerOf(rate) /\ NumerOf(rate) <= 100 * DenomOf(rate)
                /\ total.v = 0 => rate = Num(0)

\* a group of a failed, a passed and an unchecked row: 3 checks, 1 defect
C10_Witness ==
    /\ Aggregated
    /\ \E g \in DOMAIN hourly_summary.rows :
          LET members == Members(joined_data, SummaryKey(joined_data, hourly_summary, g))
              status(i) == Cell(joined_data, joined_data.rows[i], n_quality_status)
          IN  /\ \E i \in members : status(i) = Str(t_fail)
              /\ \E i \in members : status(i) = Str(t_not_checked)
              /\ Cell(hourly_summary, hourly_summary.rows[g], n_total_checks) = Num(2)
              /\ Cell(hourly_summary, hourly_summary.rows[g], n_defect_count) = Num(1)
              /\ Cell(hourly_summary, hourly_summary.rows[g], n_defect_rate) = Num(50)

(***************************************************************************)
(* The sink.                                                               *)
(***************************************************************************)
LoadedOk == "All data successfully loaded to database" \in log

LoadFailed == "ERROR loading data to database" \in log

Completed == "ETL PIPELINE COMPLETED SUCCESSFULLY" \in log

\* load_to_database called once more with the result sets of this run
LoadedAgain ==
    load_to_database(joined_data, quality_std, hourly_summary, create_database(db),
                     faults, FALSE)

\* C11: when a load has gone through, a second load_to_database with the
\* same three result sets goes through too and leaves sensor_readings,
\* quality_checks and hourly_summary exactly as the first call left them:
\* rows are overwritten, never accumulated.
C11_LoadIdempotent ==
    (pc = "done" /\ LoadedOk) =>
        LET again == LoadedAgain
        IN  /\ ~again.error
            /\ \A t \in Tables : again.db[t] = db[t]

\* a load that wrote rows into each of the three tables
C11_Witness ==
    /\ pc = "done" /\ LoadedOk
    /\ \A t \in Tables : Len(db[t].rows) > 0
    /\ LET again == LoadedAgain IN \A t \in Tables : again.db[t] = db[t]

\* what the same call leaves in a database file that did not exist
LoadedFresh ==
    load_to_database(joined_data, quality_std, hourly_summary, create_database(NoDb),
                     {}, FALSE)

\* C12: after a load that has gone through, the rows of each of the three
\* tables are those the result set of this call gives, whatever the table
\* held before: they are the rows the same call leaves in a new database,
\* also when a result set of this run is empty.
C12_DestructiveOverwrite ==
    (pc = "done" /\ LoadedOk) =>
        LET fresh == LoadedFresh IN \A t \in Tables : db[t].rows = fresh.db[t].rows

\* C13: when a to_sql call of load_to_database raises, none of the three
\* tables keeps a change made by this call, the call returns normally, and
\* the sensor, quality and summary result sets passed in are unchanged.
C13_LoadFailsAsUnit ==
    [][(pc = "aggregated" /\ LoadFailed') =>
          /\ \A t \in Tables : db'[t] = create_database(db)[t]
          /\ pc' = "done"
          /\ UNCHANGED <<joined_data, quality_std, hourly_summary>>]_vars

\* C20: the completed-successfully line is never printed in a run whose
\* load hit a persistence error.
C20_SuccessOnlyAfterCommit == ~(LoadFailed /\ Completed)

(***************************************************************************)
(* Extraction and the order of the stages.                                 *)
(***************************************************************************)
\* the sensor input as extraction without days_back returns it
FullInput == extract_sensor_data(fs, args.sensor_file, <<>>)

\* the rows of the full input at or after the cutoff of the call
InWindow ==
    LET full == FullInput
        j == TimestampCols(full.cols)[1]
    IN  {i \in DOMAIN full.rows :
            IsTs(full.rows[i][j]) /\ full.rows[i][j].v + args.days_back[1] * MinutesPerDay >= Now}

\* extraction looked back over a sensor file with a timestamp column
LookedBack ==
    /\ pc = "extracted"
    /\ args.days_back # <<>>
    /\ fs[SensorPath].exists
    /\ TimestampCols(fs[SensorPath].df.cols) # <<>>

\* C14: when days_back is given and no row of the sensor input has a
\* timestamp at or after now - days_back, extract_sensor_data returns the
\* rows extraction of the same input without days_back returns (the full
\* input, timestamps parsed); when a row is in the window, exactly the rows
\* at or after the cutoff are returned.
C14_LookbackFallback ==
    LookedBack =>
        IF InWindow = {} THEN sensor_raw = FullInput
        ELSE sensor_raw = SelectRows(FullInput, SetToSeq(InWindow))

\* the same for the calls that pass the name of the file the code reads
C14_SameFile == (LookedBack /\ args.sensor_file = SensorPath) => C14_LookbackFallback

StageOrder == <<"start", "extracted", "cleaned", "standardized", "joined",
                "aggregated", "done">>

\* C15: the stages run in the order extract, clean, standardize, join,
\* aggregate, load, one step each, every result set being written by its
\* own stage; when extraction returns no sensor data the run stops right
\* after extract, with no transform result and the database as it was.
C15_StagesInOrder ==
    [][/\ \/ \E k \in 1..(Len(StageOrder) - 1) :
                pc = StageOrder[k] /\ pc' = StageOrder[k + 1]
          \/ pc = "extracted" /\ pc' = "stopped"
       /\ (pc' = "stopped") = (pc = "extracted" /\ IsEmpty(sensor_raw))
       /\ pc' = "stopped" =>
             /\ UNCHANGED <<db, sensor_clean, sensor_std, quality_std, joined_data,
                            hourly_summary>>
             /\ sensor_clean = EmptyFrame /\ joined_data = EmptyFrame
             /\ hourly_summary = EmptyFrame
       /\ sensor_raw' # sensor_raw => pc = "start"
       /\ sensor_clean' # sensor_clean => pc = "extracted"
       /\ quality_std' # quality_std => pc = "cleaned"
       /\ hourly_summary' # hourly_summary => pc = "joined"
       /\ db' # db => pc = "aggregated"]_vars

\* the sensor file is missing and the run has stopped, no database created
C15_Witness ==
    /\ pc = "stopped"
    /\ ~fs[SensorPath].exists
    /\ fs[QualityPath].exists
    /\ db = NoDb
    /\ "PIPELINE FAILED" \in log

(***************************************************************************)
(* The columns of the tables.                                              *)
(***************************************************************************)
Schema(t) ==
    CASE t = "sensor_readings" -> SensorTargets
      [] t = "quality_checks" -> QualitySchema
      [] t = "hourly_summary" -> SummarySchema

\* C16: the columns of each of the three tables after a load are a
\* duplicate-free subset of the fixed columns of that table.
C16_ColumnsInSchema ==
    (pc = "done" /\ LoadedOk) =>
        \A t \in Tables :
            /\ Range(db[t].cols) \subseteq Range(Schema(t))
            /\ ~HasDuplicateNames(db[t].cols)

(***************************************************************************)
(* The data_quality flag.                                                  *)
(***************************************************************************)
TypeRank(t) == CHOOSE k \in DOMAIN SensorTypes : SensorTypes[k] = t

\* column p is visited before column q: by type, then by position
VisitedBefore(p, q) ==
    TypeRank(p[2]) < TypeRank(q[2]) \/ (p[2] = q[2] /\ p[1] < q[1])

\* the visits of the cleaner that write the flag of row i: those of a
\* cell that is no valid reading
FlagWriters(df, i) == {p \in RangeChecked(df) : ~ValidReading(df.rows[i][p[1]], p[2])}

\* the last flag the visit of column p writes to row i: estimated when a
\* valid reading above fills the cell, invalid when the cell stays empty
LastWritten(df, i, p) ==
    IF \E h \in 1..(i - 1) : ValidReading(df.rows[h][p[1]], p[2])
    THEN Str(t_estimated) ELSE Str(t_invalid)

\* every column is validated under one sensor type
OneTypeEach(df) == \A p, q \in RangeChecked(df) : p[1] = q[1] => p = q

\* C17: the data_quality of each cleaned row is the last flag written to
\* it when the columns are visited temperature, pressure, vibration and
\* each visit writes invalid (out of range), then estimated (filled), then
\* invalid (still empty); a row no visit writes to is good; the flag is
\* always good, estimated or invalid.
C17_LastWriteWins ==
    (pc = "cleaned" /\ OneTypeEach(sensor_raw)) =>
        \A i \in DOMAIN sensor_clean.rows :
            LET W == FlagWriters(sensor_raw, i)
            IN  /\ FlagOf(sensor_clean, i) \in {Str(t_good), Str(t_estimated), Str(t_invalid)}
                /\ W = {} => FlagOf(sensor_clean, i) = Str(t_good)
                /\ \A p \in W :
                      (\A q \in W : q = p \/ VisitedBefore(q, p)) =>
                          FlagOf(sensor_clean, i) = LastWritten(sensor_raw, i, p)

\* a row whose temperature stays empty (invalid) and whose pressure is
\* filled afterwards ends estimated
C17_Witness ==
    /\ pc = "cleaned"
    /\ \E i \in DOMAIN sensor_clean.rows :
       \E p, q \in FlagWriters(sensor_raw, i) :
          /\ p[2] = "temperature" /\ q[2] = "pressure"
          /\ sensor_clean.rows[i][p[1]] = NaN
          /\ sensor_clean.rows[i][q[1]] # NaN
          /\ FlagOf(sensor_clean, i) = Str(t_estimated)

(***************************************************************************)
(* The roles of the columns.                                               *)
(***************************************************************************)
\* C18: when several columns match the same role the first in column order
\* is the one used; the avg, min and max of a sensor type in a summary row
\* are those of the first column of that type.
C18_FirstColumnWins ==
    Aggregated =>
        \A g \in DOMAIN hourly_summary.rows : \A t \in AggregatedTypes :
            ColsOfType(joined_data, t) # {} =>
                StatsOf(joined_data, hourly_summary, g,
                        FirstOf(ColsOfType(joined_data, t)), t)

\* C19: when the sensor rows have a column with the timestamp role of the
\* joiner (a name containing time or date), the aggregator finds a
\* timestamp column too and returns a summary; the summary is empty for
\* lack of a timestamp only when no non-quality column name contains time
\* or date.
C19_TimestampRoleAgrees ==
    (pc = "aggregated" /\ ~IsEmpty(joined_data)) =>
        /\ (~IsEmpty(quality_std) /\ TimeCol(sensor_std) # 0) => hourly_summary # EmptyFrame
        /\ hourly_summary = EmptyFrame =>
              \A j \in DOMAIN joined_data.cols :
                  Unqualified(joined_data.cols[j]) => ~NamesTime(joined_data.cols[j])

====
